---- MODULE Spec2Model ----
(***************************************************************************)
(* A model of `minimal` (src/src/main.rs, src/src/min.rs): a peer-to-peer  *)
(* chat over a gossip topic with a one-slot matchmaking queue and nested   *)
(* game sessions.                                                          *)
(*                                                                         *)
(* Each node runs: the main task (bootstrap, then the command loop), the   *)
(* dispatcher task subscribe_loop, and per game session the task           *)
(* begin_game and its listener game_subscribe_loop.                        *)
(***************************************************************************)
EXTENDS Integers, Sequences, FiniteSets, TLC

(***************************************************************************)
(* Bounds of the model.                                                    *)
(***************************************************************************)
\* broadcasts on the room and session topics in one behaviour
MaxSent == 3
\* game ids rand::random_range may draw: the floats 1.0 .. MaxGameId.0
MaxGameId == 2
\* ticks a wait with no timeout is observed for
MaxWaitTicks == 2
\* seconds of waiting one Tick stands for
TickSecs == 10
\* room broadcasts followed in the specification that starts at process start
MaxBootSent == 1
\* terminal events the sessions read in one behaviour
MaxEvents == 3
\* bytes of the longest string bytes_from_str is applied to
MaxStrLen == 34
\* components in the largest multiset craft is applied to
MaxBagSize == 3

(***************************************************************************)
(* Program constants.                                                      *)
(***************************************************************************)
\* main.rs:60
CONNECTION_TIMEOUT_SECS == 10
\* main.rs:57  "0.4.0"
MINIMAL_VERSION == <<48, 46, 52, 46, 48>>
\* main.rs:58  "the-rivulet/minimal/topic/"
MINIMAL_TOPIC_HEADER ==
    <<116, 104, 101, 45, 114, 105, 118, 117, 108, 101, 116, 47, 109, 105,
      110, 105, 109, 97, 108, 47, 116, 111, 112, 105, 99, 47>>
\* main.rs:59  "the-rivulet/minimal/host/"
MINIMAL_HOST_KEY_KEADER ==
    <<116, 104, 101, 45, 114, 105, 118, 117, 108, 101, 116, 47, 109, 105,
      110, 105, 109, 97, 108, 47, 104, 111, 115, 116, 47>>
\* main.rs:349, 350
MIN_TERM_COLS == 30
MIN_TERM_ROWS == 7

\* the processes; a node's PeerId (endpoint.node_id()) is written as its name
Nodes == {"A", "B", "C"}
None == "none"
Roles == {"Open", "Join"}

(***************************************************************************)
(* bytes_from_str (main.rs:42-55): 32 bytes, the input truncated or        *)
(* zero-padded on the right.                                               *)
(***************************************************************************)
\* a copy that stops one byte short of the buffer
bytes_from_str_short(s) ==
    [i \in 1..32 |-> IF i < 32 /\ i <= Len(s) THEN s[i] ELSE 0]

bytes_from_str(s) ==
    [i \in 1..32 |-> IF Len(s) > 32 THEN s[i]
                     ELSE IF i <= Len(s) THEN s[i] ELSE 0]

\* main.rs:66
topic == bytes_from_str(MINIMAL_TOPIC_HEADER \o MINIMAL_VERSION)
\* main.rs:71, 123
host_key == bytes_from_str(MINIMAL_HOST_KEY_KEADER \o MINIMAL_VERSION)
\* SecretKey::generate (main.rs:75): a fresh random key, written as 32
\* bytes that tell the nodes apart
generate(n) ==
    [i \in 1..32 |-> IF n = "A" THEN 1 ELSE IF n = "B" THEN 2 ELSE 3]
\* SecretKey::public (main.rs:124): the identity of a key, one per key
public(sk) == [public_of |-> sk]

(***************************************************************************)
(* f64::to_le_bytes for the floats 0.0, 1.0, .. 31.0, which a game id is   *)
(* written as: sign 0, exponent field 1023 + e, the fraction's top four    *)
(* bits in byte 7 (counting from 1), all lower fraction bits zero.         *)
(***************************************************************************)
RECURSIVE Log2(_)
Log2(k) == IF k < 2 THEN 0 ELSE 1 + Log2(k \div 2)

RECURSIVE Pow2(_)
Pow2(e) == IF e = 0 THEN 1 ELSE 2 * Pow2(e - 1)

to_le_bytes(g) ==
    IF g = 0 THEN [i \in 1..8 |-> 0]
    ELSE LET e == Log2(g)
             expfield == 1023 + e
             frac4 == (g - Pow2(e)) * Pow2(4 - e)
         IN  [i \in 1..8 |-> IF i = 8 THEN expfield \div 16
                             ELSE IF i = 7 THEN (expfield % 16) * 16 + frac4
                             ELSE 0]

\* begin_game (main.rs:353-358): the session topic of a game id
game_topic(g) ==
    LET bytes == to_le_bytes(g)
    IN  [i \in 1..32 |-> IF i <= Len(bytes) THEN bytes[i] ELSE 0]

GameIds == 1..MaxGameId

(***************************************************************************)
(* Messages (main.rs:241-264).  The nonce is drawn fresh per message; it   *)
(* is written as the sender and the number of its earlier broadcasts.      *)
(***************************************************************************)
\* Strings are written as their UTF-8 bytes; a field a variant does not
\* have is None (a PeerId), 0 (a game id) or the empty string.
AboutMe(from, name, nonce) ==
    [type |-> "AboutMe", from |-> from, orig_sender |-> None,
     game_id |-> 0, name |-> name, text |-> <<>>, nonce |-> nonce]
Message(from, text, nonce) ==
    [type |-> "Message", from |-> from, orig_sender |-> None,
     game_id |-> 0, name |-> <<>>, text |-> text, nonce |-> nonce]
GameRequest(from, nonce) ==
    [type |-> "GameRequest", from |-> from, orig_sender |-> None,
     game_id |-> 0, name |-> <<>>, text |-> <<>>, nonce |-> nonce]
GameStart(from, orig_sender, game_id, nonce) ==
    [type |-> "GameStart", from |-> from, orig_sender |-> orig_sender,
     game_id |-> game_id, name |-> <<>>, text |-> <<>>, nonce |-> nonce]
Aborted(nonce) ==
    [type |-> "Aborted", from |-> None, orig_sender |-> None,
     game_id |-> 0, name |-> <<>>, text |-> <<>>, nonce |-> nonce]

\* no message
NoMsg ==
    [type |-> None, from |-> None, orig_sender |-> None, game_id |-> 0,
     name |-> <<>>, text |-> <<>>, nonce |-> <<None, 0>>]

\* a payload MinimalMessage::from_bytes (main.rs:267-269) fails on: bytes
\* that are not the JSON of an envelope, sent by a peer that is not a node
\* of the model
Malformed ==
    [type |-> "Malformed", from |-> None, orig_sender |-> None, game_id |-> 0,
     name |-> <<>>, text |-> <<>>, nonce |-> <<None, 0>>]

VARIABLES
    role,           \* args.command of each node
    secret_key,     \* the key the endpoint is bound with, <<>> before main.rs:67
    bootstrap_nodes,\* main.rs:117-131
    pc,             \* where the main task is
    waited,         \* seconds the wait the main task is in has lasted
    fail_cause,     \* why main ended in Failed
    game_request_tracker, \* the matchmaking slot, main.rs:167
    lock,           \* holder of the slot's Mutex: "free" or "main"
    pending,        \* the message main is broadcasting inside /min
    dpc,            \* where the dispatcher task subscribe_loop is
    network,        \* room messages delivered to a node's receiver, not yet read
    sent,           \* every broadcast made: [by, topic, msg]
    sessions,       \* the begin_game tasks a node has spawned, in order
    handled,        \* the dispatcher's last message, and the slot before it
    raw_mode,       \* the terminal of the node's process is in raw mode
    alt_screen,     \* the terminal shows the alternate screen
    events,         \* terminal events the sessions have read so far
    names,          \* the dispatcher's directory, a map PeerId -> name
    out,            \* the notification the dispatcher printed last
    heard,          \* the AboutMe and Message messages it handled, in order
    notice,         \* the last line main's loop printed in red
    args,           \* the inputs of a function under test
    called,         \* the function under test has returned
    result          \* what it returned

vars == <<role, secret_key, bootstrap_nodes, pc, waited, fail_cause,
          game_request_tracker, lock, pending, dpc, network, sent,
          sessions, handled, raw_mode, alt_screen, events, names, out,
          heard, notice, args, called, result>>

bootVars == <<role, secret_key, bootstrap_nodes, waited, fail_cause>>
slotVars == <<game_request_tracker, lock, pending>>
dispVars == <<dpc, handled>>
termVars == <<raw_mode, alt_screen, events>>
chatVars == <<names, out, heard>>
pureVars == <<args, called, result>>

\* nothing printed
NoOut == [kind |-> None, a |-> <<>>, b |-> <<>>]

BootStates == {"Starting", "ConnectingTransport", "Hosting", "LocatingHost",
               "Joining", "Failed"}
\* the main task inside the /min arm, awaiting sender.broadcast
MinStates == {"min_start", "min_req"}

our_id(n) == n

(***************************************************************************)
(* Strings, as the sequences of their bytes, and the str methods the       *)
(* command loop and the dispatcher use.                                    *)
(***************************************************************************)
\* "/"
SLASH == <<47>>
\* "/nick", "/quit", "/min" (main.rs:187, 197, 199)
NICK == <<47, 110, 105, 99, 107>>
QUIT == <<47, 113, 117, 105, 116>>
MIN == <<47, 109, 105, 110>>

\* str::starts_with (main.rs:185)
starts_with(text, prefix) ==
    /\ Len(text) >= Len(prefix)
    /\ SubSeq(text, 1, Len(prefix)) = prefix

\* char::is_whitespace on one-byte characters: tab, line feed, vertical
\* tab, form feed, carriage return, space
is_whitespace(b) == b \in {9, 10, 11, 12, 13, 32}

RECURSIVE trim_start(_)
trim_start(text) ==
    IF text # <<>> /\ is_whitespace(Head(text)) THEN trim_start(Tail(text))
    ELSE text

RECURSIVE trim_end(_)
trim_end(text) ==
    IF text # <<>> /\ is_whitespace(text[Len(text)])
    THEN trim_end(SubSeq(text, 1, Len(text) - 1))
    ELSE text

\* str::trim (main.rs:186, 225, 306)
trim(text) == trim_end(trim_start(text))

\* str::split(" ") (main.rs:186): the pieces between the separators, an
\* empty piece between two adjacent ones; at least one piece
RECURSIVE split(_, _)
split(text, sep) ==
    IF \A i \in 1..Len(text) : text[i] # sep THEN <<text>>
    ELSE LET at == CHOOSE i \in 1..Len(text) :
                      /\ text[i] = sep
                      /\ \A j \in 1..(i - 1) : text[j] # sep
         IN  <<SubSeq(text, 1, at - 1)>>
             \o split(SubSeq(text, at + 1, Len(text)), sep)

\* [&str]::join(" ") (main.rs:188)
RECURSIVE join(_, _)
join(pieces, sep) ==
    IF pieces = <<>> THEN <<>>
    ELSE IF Len(pieces) = 1 THEN pieces[1]
    ELSE pieces[1] \o <<sep>> \o join(Tail(pieces), sep)

\* main.rs:186
arguments(text) == split(trim(text), 32)

\* the bytes of a node's public key, and the two lower-case hex digits of
\* a byte
as_bytes(from) ==
    [i \in 1..32 |-> IF from = "A" THEN 161 ELSE IF from = "B" THEN 178
                      ELSE 195]
hex_digit(d) == IF d < 10 THEN 48 + d ELSE 87 + d
hex(b) == <<hex_digit(b \div 16), hex_digit(b % 16)>>

\* PublicKey::fmt_short (main.rs:281): the first five bytes in hex
fmt_short(from) ==
    hex(as_bytes(from)[1]) \o hex(as_bytes(from)[2]) \o
    hex(as_bytes(from)[3]) \o hex(as_bytes(from)[4]) \o
    hex(as_bytes(from)[5])

\* get_name (main.rs:278-282)
get_name(directory, from) ==
    IF from \in DOMAIN directory THEN directory[from] ELSE fmt_short(from)

\* a directory that keeps the first name it learned for a peer
insert_if_absent(directory, from, name) ==
    [p \in DOMAIN directory \cup {from} |->
        IF p \in DOMAIN directory THEN directory[p] ELSE name]

\* HashMap::insert (main.rs:300)
insert(directory, from, name) ==
    [p \in DOMAIN directory \cup {from} |->
        IF p = from THEN name ELSE directory[p]]

\* the lines a user types, each ended by the line feed read_line keeps
\* (main.rs:342): "/nick", "/nick Bea", "/who", "hi", "/min", "/quit"
Lines ==
    {NICK \o <<10>>,
     NICK \o <<32, 66, 101, 97, 10>>,
     <<47, 119, 104, 111, 10>>,
     <<104, 105, 10>>,
     MIN \o <<10>>,
     QUIT \o <<10>>}

(***************************************************************************)
(* Helpers.                                                                *)
(***************************************************************************)
\* the nodes whose room receiver is being read: the dispatcher is running
Listening(n) == dpc[n] = "recv"

\* sender.broadcast on the room topic: the gossip layer hands the payload
\* to every other subscribed node, never back to the sender
Delivered(n, m) ==
    [x \in Nodes |-> IF x # n /\ Listening(x) THEN network[x] \cup {m}
                     ELSE network[x]]

Logged(n, t, m) == sent \cup {[by |-> n, topic |-> t, msg |-> m]}

\* MinimalMessage::new (main.rs:270-272) draws the nonce
new_nonce(n) == <<n, Cardinality({s \in sent : s.by = n})>>

\* broadcasts made or under way
Broadcasts == Cardinality(sent) + Cardinality({n \in Nodes : pc[n] \in MinStates})

\* no terminal event
NoEvent == [kind |-> None, cols |-> 0, rows |-> 0]

\* tokio::spawn(begin_game(game_id, gossip, bootstrap)) (main.rs:213, 327)
\* the task starts by awaiting subscribe_and_join (main.rs:361); `event` is
\* the last terminal event its loop has read, `frames` the frames drawn
begin_game(game_id, bootstrap) ==
    [game_id |-> game_id, topic |-> game_topic(game_id),
     bootstrap |-> bootstrap, loop |-> "joining", listener |-> "none",
     term_cols |-> 0, term_rows |-> 0, inbox |-> {},
     event |-> NoEvent, frames |-> 0]

\* a lock that excludes no one
can_lock_always(holder) == TRUE

\* Mutex::lock (main.rs:201, 310, 317) returns once no one holds the mutex
can_lock(holder) == holder = "free"


\* a node that wakes from an expired timeout and tries again
after_timeout_retry(state) == state

\* main.rs:110-115, 143-146: an expired timeout panics main
after_timeout(state) == "Failed"

\* a subscribe that is under the timeout in both roles
subscribe_has_timeout_always(is_host_node) == TRUE

\* main.rs:133-140: only a joining node's subscribe is under a timeout
subscribe_has_timeout(is_host_node) == ~is_host_node

\* tokio::time::timeout(CONNECTION_TIMEOUT_SECS, ..) has expired
timed_out(secs) == secs >= CONNECTION_TIMEOUT_SECS

(***************************************************************************)
(* Bootstrap: main.rs:63-148.                                              *)
(***************************************************************************)
\* main.rs:64-90: parse the command, pick the key, bind the endpoint
Start(n) ==
    /\ pc[n] = "Starting"
    /\ \E r \in Roles :
         /\ role' = [role EXCEPT ![n] = r]
         /\ secret_key' = [secret_key EXCEPT ![n] =
                IF r = "Open" THEN host_key ELSE generate(n)]
    /\ pc' = [pc EXCEPT ![n] = "ConnectingTransport"]
    /\ waited' = [waited EXCEPT ![n] = 0]
    /\ UNCHANGED <<pureVars, notice, chatVars, termVars, bootstrap_nodes, fail_cause, slotVars, dispVars, network,
                   sent, sessions>>

\* time passes for a node inside a wait; a wait with no timeout is followed
\* for MaxWaitTicks ticks
Tick(n) ==
    /\ \/ /\ pc[n] = "ConnectingTransport"
          /\ ~timed_out(waited[n])
       \/ /\ pc[n] = "Joining"
          /\ IF subscribe_has_timeout(role[n] = "Open")
             THEN ~timed_out(waited[n])
             ELSE waited[n] < MaxWaitTicks * TickSecs
    /\ waited' = [waited EXCEPT ![n] = waited[n] + TickSecs]
    /\ UNCHANGED <<pureVars, notice, chatVars, termVars, role, secret_key, bootstrap_nodes, pc, fail_cause,
                   slotVars, dispVars, network, sent, sessions>>

\* main.rs:109-117: endpoint.online() completed inside the timeout
Online(n) ==
    /\ pc[n] = "ConnectingTransport"
    /\ ~timed_out(waited[n])
    /\ pc' = [pc EXCEPT ![n] = IF role[n] = "Open" THEN "Hosting"
                               ELSE "LocatingHost"]
    /\ UNCHANGED <<pureVars, notice, chatVars, termVars, bootVars, slotVars, dispVars, network,
                   sent, sessions>>

\* main.rs:110-115: the timeout elapsed first; main panics
OnlineTimeout(n) ==
    /\ pc[n] = "ConnectingTransport"
    /\ timed_out(waited[n])
    /\ pc' = [pc EXCEPT ![n] = after_timeout(pc[n])]
    /\ fail_cause' = [fail_cause EXCEPT ![n] = "online_timeout"]
    /\ UNCHANGED <<pureVars, notice, chatVars, termVars, role, secret_key, bootstrap_nodes, waited, slotVars,
                   dispVars, network, sent, sessions>>

\* main.rs:117-119, 134: the host's bootstrap list is empty
Host(n) ==
    /\ pc[n] = "Hosting"
    /\ bootstrap_nodes' = [bootstrap_nodes EXCEPT ![n] = <<>>]
    /\ pc' = [pc EXCEPT ![n] = "Joining"]
    /\ waited' = [waited EXCEPT ![n] = 0]
    /\ UNCHANGED <<pureVars, notice, chatVars, termVars, role, secret_key, fail_cause, slotVars, dispVars, network,
                   sent, sessions>>

\* main.rs:120-131, 136-139: the joiner's bootstrap list is the host's
\* identity, derived again from the host key; no relay_url is an error
LocateHost(n) ==
    /\ pc[n] = "LocatingHost"
    /\ \E relay_url \in BOOLEAN :
         IF relay_url
         THEN /\ bootstrap_nodes' =
                   [bootstrap_nodes EXCEPT ![n] = <<public(host_key)>>]
              /\ pc' = [pc EXCEPT ![n] = "Joining"]
              /\ waited' = [waited EXCEPT ![n] = 0]
              /\ UNCHANGED fail_cause
         ELSE /\ pc' = [pc EXCEPT ![n] = "Failed"]
              /\ fail_cause' = [fail_cause EXCEPT ![n] = "no_relay"]
              /\ UNCHANGED <<bootstrap_nodes, waited>>
    /\ UNCHANGED <<pureVars, notice, chatVars, termVars, role, secret_key, slotVars, dispVars, network, sent,
                   sessions>>

\* a node bound with the host key has subscribed to the room
HostUp == \E h \in Nodes : /\ role[h] = "Open"
                           /\ pc[h] \notin (BootStates \ {"Joining"})
                           /\ pc[h] # "quit"

\* main.rs:133-148, 167-179: subscribe_and_join returned; "ready!"; the slot
\* is created empty and the dispatcher and the input thread are spawned
Subscribed(n) ==
    /\ pc[n] = "Joining"
    /\ IF subscribe_has_timeout(role[n] = "Open")
       THEN ~timed_out(waited[n]) /\ HostUp
       ELSE TRUE
    /\ pc' = [pc EXCEPT ![n] = "Ready"]
    /\ dpc' = [dpc EXCEPT ![n] = "recv"]
    /\ UNCHANGED <<pureVars, notice, chatVars, termVars, bootVars, slotVars, network, sent, sessions, handled>>

\* main.rs:143-146: the joiner's timeout elapsed first; main panics
JoinTimeout(n) ==
    /\ pc[n] = "Joining"
    /\ subscribe_has_timeout(role[n] = "Open")
    /\ timed_out(waited[n])
    /\ pc' = [pc EXCEPT ![n] = after_timeout(pc[n])]
    /\ fail_cause' = [fail_cause EXCEPT ![n] = "join_timeout"]
    /\ UNCHANGED <<pureVars, notice, chatVars, termVars, role, secret_key, bootstrap_nodes, waited, slotVars,
                   dispVars, network, sent, sessions>>

(***************************************************************************)
(* The command loop of main: main.rs:183-235.                              *)
(***************************************************************************)
\* a /min that never accepts
min_accepts_never(requester) == FALSE

\* main.rs:202-203, 215: match *requester; Some(other_requester) accepts
min_accepts(requester) == requester # None

\* main.rs:199-210, 215-219: /min locks the slot, reads it, and starts the
\* broadcast its contents decide; the guard is still held
MinBegin(n) ==
    /\ pc[n] = "Ready"
    /\ Broadcasts < MaxSent
    /\ can_lock(lock[n])
    /\ lock' = [lock EXCEPT ![n] = "main"]
    /\ IF min_accepts(game_request_tracker[n])
       THEN /\ \E game_id \in GameIds :
                 pending' = [pending EXCEPT ![n] =
                     GameStart(our_id(n), game_request_tracker[n], game_id,
                               new_nonce(n))]
            /\ pc' = [pc EXCEPT ![n] = "min_start"]
       ELSE /\ pending' = [pending EXCEPT ![n] =
                     GameRequest(our_id(n), new_nonce(n))]
            /\ pc' = [pc EXCEPT ![n] = "min_req"]
    /\ UNCHANGED <<pureVars, notice, chatVars, termVars, bootVars, game_request_tracker, dispVars,
                   network, sent, sessions>>

\* main.rs:210-214, 219-223: the broadcast returned; the slot is written,
\* the session is spawned (accept only) and the guard is dropped
MinSent(n) ==
    /\ pc[n] \in MinStates
    /\ sent' = Logged(n, topic, pending[n])
    /\ network' = Delivered(n, pending[n])
    /\ IF pc[n] = "min_start"
       THEN /\ game_request_tracker' =
                   [game_request_tracker EXCEPT ![n] = None]
            /\ sessions' = [sessions EXCEPT ![n] =
                   Append(@, begin_game(pending[n].game_id, <<>>))]
       ELSE /\ game_request_tracker' =
                   [game_request_tracker EXCEPT ![n] = our_id(n)]
            /\ UNCHANGED sessions
    /\ lock' = [lock EXCEPT ![n] = "free"]
    /\ pending' = [pending EXCEPT ![n] = NoMsg]
    /\ pc' = [pc EXCEPT ![n] = "Ready"]
    /\ UNCHANGED <<pureVars, notice, chatVars, termVars, bootVars, dispVars>>

\* main.rs:197-198, 236-238: /quit leaves the loop and main returns, which
\* ends the node's tasks at their next await
Quit(n) ==
    /\ pc[n] = "Ready"
    /\ pc' = [pc EXCEPT ![n] = "quit"]
    /\ dpc' = [dpc EXCEPT ![n] = "dead"]
    /\ network' = [network EXCEPT ![n] = {}]
    /\ UNCHANGED <<pureVars, notice, chatVars, termVars, bootVars, slotVars, sent, sessions, handled>>

\* main.rs:187-196: /nick broadcasts AboutMe with the rest of the line as
\* the name, whatever it is
Nick(n) ==
    /\ pc[n] = "Ready"
    /\ Broadcasts < MaxSent
    /\ \E text \in Lines :
         /\ starts_with(text, SLASH)
         /\ arguments(text)[1] = NICK
         /\ LET new_nick == join(Tail(arguments(text)), 32)
                m == AboutMe(our_id(n), new_nick, new_nonce(n))
            IN  /\ sent' = Logged(n, topic, m)
                /\ network' = Delivered(n, m)
    /\ UNCHANGED <<pureVars, notice, chatVars, termVars, bootVars, pc,
                   slotVars, dispVars, sessions>>

\* main.rs:224-226: any other line that starts with "/" is answered with
\* "unknown command: .." in red
Unknown(n) ==
    /\ pc[n] = "Ready"
    /\ \E text \in Lines :
         /\ starts_with(text, SLASH)
         /\ arguments(text)[1] \notin {NICK, QUIT, MIN}
         /\ notice' = [notice EXCEPT ![n] = trim(text)]
    /\ UNCHANGED <<pureVars, chatVars, termVars, bootVars, pc, slotVars,
                   dispVars, network, sent, sessions>>

\* main.rs:227-234: a line that does not start with "/" is broadcast as a
\* Message
Say(n) ==
    /\ pc[n] = "Ready"
    /\ Broadcasts < MaxSent
    /\ \E text \in Lines :
         /\ ~starts_with(text, SLASH)
         /\ LET m == Message(our_id(n), text, new_nonce(n))
            IN  /\ sent' = Logged(n, topic, m)
                /\ network' = Delivered(n, m)
    /\ UNCHANGED <<pureVars, notice, chatVars, termVars, bootVars, pc,
                   slotVars, dispVars, sessions>>

\* main.rs:201: Mutex::lock returns Err on a poisoned mutex and expect
\* panics; the panic unwinds main and the process ends
MinPoisoned(n) ==
    /\ pc[n] = "Ready"
    /\ lock[n] = "poisoned"
    /\ pc' = [pc EXCEPT ![n] = "panicked"]
    /\ fail_cause' = [fail_cause EXCEPT ![n] = "lock_poisoned"]
    /\ dpc' = [dpc EXCEPT ![n] = "dead"]
    /\ network' = [network EXCEPT ![n] = {}]
    /\ UNCHANGED <<pureVars, notice, chatVars, termVars, role, secret_key,
                   bootstrap_nodes, waited, slotVars, sent, sessions,
                   handled>>

(***************************************************************************)
(* The dispatcher subscribe_loop: main.rs:285-336.  A handler has no await *)
(* between taking the slot's lock and dropping it, so the handling of one  *)
(* message is one step, which waits for the lock to be free.               *)
(***************************************************************************)
\* a request that queues behind the waiting challenger instead
request_slot_first_wins(old, from) == IF old = None THEN from ELSE old

\* main.rs:308-314: GameRequest{from} overwrites the slot
request_slot(old, from) == from

\* a GameStart that only dequeues the challenger it names
start_slot_if_named(old, orig_sender) ==
    IF old = orig_sender THEN None ELSE old

\* main.rs:315-318: GameStart clears the slot
start_slot(old, orig_sender) == None

\* a requester that joins with no bootstrap peer
start_sessions_no_peer(n, m, mine) ==
    IF m.orig_sender = our_id(n)
    THEN Append(mine, begin_game(m.game_id, <<>>))
    ELSE mine

\* a dispatcher that joins every game it hears of
start_sessions_any(n, m, mine) ==
    Append(mine, begin_game(m.game_id, <<m.from>>))

\* main.rs:325-328: the node whose request was accepted joins the session
\* with the accepter as its bootstrap peer
start_sessions(n, m, mine) ==
    IF m.orig_sender = our_id(n)
    THEN Append(mine, begin_game(m.game_id, <<m.from>>))
    ELSE mine

\* a dispatcher that logs a payload it cannot decode and reads on
on_decode_error_skip(state) == state

\* main.rs:293: the ? on from_bytes returns the error from subscribe_loop
on_decode_error(state) == "failed"

\* the line a handler prints (main.rs:301, 306, 313, 324)
printed(directory, m) ==
    IF m.type = "AboutMe"
    THEN [kind |-> "rename", a |-> get_name(directory, m.from), b |-> m.name]
    ELSE IF m.type = "Message"
    THEN [kind |-> "chat", a |-> get_name(directory, m.from),
          b |-> trim(m.text)]
    ELSE IF m.type = "GameRequest"
    THEN [kind |-> "queued", a |-> get_name(directory, m.from), b |-> <<>>]
    ELSE [kind |-> "started", a |-> get_name(directory, m.from),
          b |-> get_name(directory, m.orig_sender)]

Dispatch(n) ==
    /\ dpc[n] = "recv"
    /\ \E m \in network[n] :
         IF m.type = "Malformed"
         THEN \* main.rs:293: from_bytes fails
              /\ dpc' = [dpc EXCEPT ![n] = on_decode_error(@)]
              /\ network' = [network EXCEPT ![n] =
                     IF dpc'[n] = "recv" THEN @ \ {m} ELSE {}]
              /\ UNCHANGED <<handled, chatVars, game_request_tracker,
                             sessions>>
         ELSE IF m.type = "Aborted"
         THEN \* main.rs:293: not a Chat, nothing is done
              /\ network' = [network EXCEPT ![n] = @ \ {m}]
              /\ UNCHANGED <<dpc, handled, chatVars, game_request_tracker,
                             sessions>>
         ELSE /\ network' = [network EXCEPT ![n] = @ \ {m}]
              /\ m.type \in {"GameRequest", "GameStart"}
                    => can_lock(lock[n])
              /\ handled' = [handled EXCEPT ![n] =
                     [msg |-> m, old |-> game_request_tracker[n]]]
              /\ out' = [out EXCEPT ![n] = printed(names[n], m)]
              /\ names' = [names EXCEPT ![n] =
                     IF m.type = "AboutMe" THEN insert(@, m.from, m.name)
                     ELSE @]
              /\ heard' = [heard EXCEPT ![n] =
                     IF m.type \in {"AboutMe", "Message"} THEN Append(@, m)
                     ELSE @]
              /\ game_request_tracker' = [game_request_tracker EXCEPT ![n] =
                     IF m.type = "GameRequest" THEN request_slot(@, m.from)
                     ELSE IF m.type = "GameStart"
                     THEN start_slot(@, m.orig_sender)
                     ELSE @]
              /\ sessions' = [sessions EXCEPT ![n] =
                     IF m.type = "GameStart" THEN start_sessions(n, m, @)
                     ELSE @]
              /\ UNCHANGED dpc
    /\ UNCHANGED <<pureVars, notice, termVars, bootVars, pc, lock, pending,
                   sent>>

\* main.rs:310-313, 317-324: println! panics when the write to stdout
\* fails; in the GameRequest and GameStart arms the guard is held then, so
\* the slot, already written, is left poisoned and the task ends
DispatchPanic(n) ==
    /\ dpc[n] = "recv"
    /\ \E m \in network[n] :
         /\ m.type \in {"GameRequest", "GameStart"}
         /\ can_lock(lock[n])
         /\ handled' = [handled EXCEPT ![n] =
                [msg |-> m, old |-> game_request_tracker[n]]]
         /\ game_request_tracker' = [game_request_tracker EXCEPT ![n] =
                IF m.type = "GameRequest" THEN request_slot(@, m.from)
                ELSE start_slot(@, m.orig_sender)]
    /\ lock' = [lock EXCEPT ![n] = "poisoned"]
    /\ dpc' = [dpc EXCEPT ![n] = "panicked"]
    /\ network' = [network EXCEPT ![n] = {}]
    /\ UNCHANGED <<pureVars, notice, chatVars, termVars, bootVars, pc,
                   pending, sent, sessions>>

\* payloads of peers that are not nodes of the model: one that does not
\* decode, and a Game message sent on the room topic
Foreign == {Malformed, Aborted(<<None, 0>>)}

\* the gossip layer delivers a foreign payload to a node's room receiver
Inject(n) ==
    /\ Listening(n)
    /\ \E m \in Foreign :
         /\ m \notin network[n]
         /\ network' = [network EXCEPT ![n] = @ \cup {m}]
    /\ UNCHANGED <<pureVars, notice, chatVars, termVars, bootVars, pc,
                   slotVars, dispVars, sent, sessions>>

(***************************************************************************)
(* A game session: begin_game (main.rs:352-433) and its listener           *)
(* game_subscribe_loop (main.rs:435-452).  Session i of node n is          *)
(* sessions[n][i].                                                         *)
(***************************************************************************)
\* sizes the terminal may have: playable, too narrow (narrower than the
\* border's title), too low (no row at all)
TermSizes == {<<MIN_TERM_COLS, MIN_TERM_ROWS>>,
              <<10, MIN_TERM_ROWS>>,
              <<MIN_TERM_COLS, 0>>}

\* the terminal events a session may read (main.rs:398-430)
TermEvents ==
    {[kind |-> k, cols |-> 0, rows |-> 0] : k \in {"q", "key", "mouse"}}
    \cup {[kind |-> "resize", cols |-> z[1], rows |-> z[2]] : z \in TermSizes}

\* main.rs:373, 423
too_small(cols, rows) == cols < MIN_TERM_COLS \/ rows < MIN_TERM_ROWS

\* a node spawns at most one session per room broadcast
SessionIds == 1..MaxSent

\* session i of n is spawned and n's process runs
Alive(n, i) ==
    /\ pc[n] \notin BootStates \cup {"quit", "panicked"}
    /\ i <= Len(sessions[n])

\* the sessions after session i of n became `mine` and, when m is a
\* message, broadcast m on its topic: the gossip layer hands m to the
\* receiver of every other node subscribed to the topic
game_sessions(n, i, mine, m) ==
    [x \in Nodes |->
        [j \in 1..Len(sessions[x]) |->
            IF x = n /\ j = i THEN mine
            ELSE IF /\ m # NoMsg
                    /\ x # n
                    /\ sessions[x][j].topic = sessions[n][i].topic
                    /\ sessions[x][j].listener = "running"
                 THEN [sessions[x][j] EXCEPT !.inbox = @ \cup {m}]
                 ELSE sessions[x][j]]]

game_sent(n, i, m) ==
    IF m = NoMsg THEN sent ELSE Logged(n, sessions[n][i].topic, m)

\* main.rs:361-363: subscribe_and_join returned, which takes a peer that
\* subscribes to the topic too; the listener is spawned
GameJoined(n, i) ==
    /\ Alive(n, i)
    /\ sessions[n][i].loop = "joining"
    /\ \E x \in Nodes \ {n} : \E j \in 1..Len(sessions[x]) :
          sessions[x][j].topic = sessions[n][i].topic
    /\ sessions' = game_sessions(n, i,
          [sessions[n][i] EXCEPT !.loop = "setup", !.listener = "running"],
          NoMsg)
    /\ UNCHANGED <<pureVars, notice, chatVars, bootVars, pc, slotVars, dispVars, network, sent, termVars>>

\* main.rs:364-377: the size is read, raw mode and the alternate screen are
\* entered, and a terminal that is too small is announced with Aborted
GameSetup(n, i) ==
    /\ Alive(n, i)
    /\ sessions[n][i].loop = "setup"
    /\ \E size \in TermSizes :
         LET m == IF too_small(size[1], size[2]) THEN Aborted(new_nonce(n))
                  ELSE NoMsg
         IN  /\ sessions' = game_sessions(n, i,
                   [sessions[n][i] EXCEPT !.loop = "running",
                                          !.term_cols = size[1],
                                          !.term_rows = size[2]], m)
             /\ sent' = game_sent(n, i, m)
    /\ raw_mode' = [raw_mode EXCEPT ![n] = TRUE]
    /\ alt_screen' = [alt_screen EXCEPT ![n] = TRUE]
    /\ UNCHANGED <<pureVars, notice, chatVars, bootVars, pc, slotVars, dispVars, network, events>>

\* main.rs:378: event_reader.try_next() returned event ev
read(session, ev) == [session EXCEPT !.event = ev]

\* u16 (main.rs:349-350, 364): the values of the terminal's size
U16 == 65536

\* a - b on u16 in a build without overflow checks: the result wraps
wrapping_sub(a, b) == (a - b + U16) % U16

\* a subtraction of the frame (term_cols - 11 at main.rs:389, the first
\* one computed, or term_rows - 1 at main.rs:390) goes below zero for this
\* size: a build with overflow checks panics there
underflows(cols, rows) == cols < 11 \/ rows < 1

\* main.rs:389-395: the widths a frame is drawn with, for the size the
\* session holds: the title is filled with term_cols - 11 dashes, the sides
\* are term_cols - 2 apart and the bottom is at row term_rows - 1
border(session) ==
    [title |-> wrapping_sub(session.term_cols, 11),
     side |-> wrapping_sub(session.term_cols, 2),
     bottom |-> wrapping_sub(session.term_rows, 1)]

\* main.rs:388-397: the whole frame is drawn again
draw(session) == [session EXCEPT !.frames = @ + 1]

\* a quit arm that restores the terminal and announces, and reads on
on_quit_no_break(session) == session

\* main.rs:407: the quit arm leaves the loop
on_quit(session) == [session EXCEPT !.loop = "ended"]

\* main.rs:378-431: one turn of the input loop, on the next terminal event;
\* `checks` is whether the build has overflow checks (the debug profile has,
\* the release profile has not)
GameEvent(n, i) ==
    /\ Alive(n, i)
    /\ sessions[n][i].loop = "running"
    /\ events < MaxEvents
    /\ events' = events + 1
    /\ \E ev \in TermEvents : \E checks \in BOOLEAN :
         IF ~raw_mode[n]
         THEN \* main.rs:379-385
              /\ sessions' = game_sessions(n, i,
                    [read(sessions[n][i], ev) EXCEPT !.loop = "ended"],
                    NoMsg)
              /\ UNCHANGED <<sent, raw_mode, alt_screen>>
         ELSE IF /\ underflows(sessions[n][i].term_cols,
                               sessions[n][i].term_rows)
                 /\ checks
         THEN \* main.rs:389: the subtraction panics and the task ends
              /\ sessions' = game_sessions(n, i,
                    [read(sessions[n][i], ev) EXCEPT !.loop = "panicked"],
                    NoMsg)
              /\ UNCHANGED <<sent, raw_mode, alt_screen>>
         ELSE IF ev.kind = "q"
         THEN \* main.rs:400-408
              /\ raw_mode' = [raw_mode EXCEPT ![n] = FALSE]
              /\ alt_screen' = [alt_screen EXCEPT ![n] = FALSE]
              /\ sessions' = game_sessions(n, i,
                    on_quit(draw(read(sessions[n][i], ev))),
                    Aborted(new_nonce(n)))
              /\ sent' = game_sent(n, i, Aborted(new_nonce(n)))
         ELSE IF ev.kind = "resize"
         THEN \* main.rs:420-428
              LET m == IF too_small(ev.cols, ev.rows)
                       THEN Aborted(new_nonce(n)) ELSE NoMsg
              IN  /\ sessions' = game_sessions(n, i,
                        [draw(read(sessions[n][i], ev))
                            EXCEPT !.term_cols = ev.cols,
                                   !.term_rows = ev.rows], m)
                  /\ sent' = game_sent(n, i, m)
                  /\ UNCHANGED <<raw_mode, alt_screen>>
         ELSE \* main.rs:399-419, 429: another key, the mouse
              /\ sessions' = game_sessions(n, i,
                    draw(read(sessions[n][i], ev)), NoMsg)
              /\ UNCHANGED <<sent, raw_mode, alt_screen>>
    /\ UNCHANGED <<pureVars, notice, chatVars, bootVars, pc, slotVars, dispVars, network>>

\* what the listener does to the session on GameMessage::Aborted
\* (main.rs:441-446): it breaks out of its own loop
on_aborted(session) == [session EXCEPT !.listener = "ended"]

\* main.rs:436-450: the listener reads a payload of the session topic
ListenerRecv(n, i) ==
    /\ Alive(n, i)
    /\ sessions[n][i].listener = "running"
    /\ \E m \in sessions[n][i].inbox :
         sessions' = game_sessions(n, i,
             on_aborted([sessions[n][i] EXCEPT !.inbox = @ \ {m}]), NoMsg)
    /\ raw_mode' = [raw_mode EXCEPT ![n] = FALSE]
    /\ alt_screen' = [alt_screen EXCEPT ![n] = FALSE]
    /\ UNCHANGED <<pureVars, notice, chatVars, bootVars, pc, slotVars, dispVars, network, sent, events>>

(***************************************************************************)
(* Specifications.                                                         *)
(***************************************************************************)
\* no process has run a statement of main yet
Unstarted ==
    /\ role = [n \in Nodes |-> None]
    /\ secret_key = [n \in Nodes |-> <<>>]
    /\ bootstrap_nodes = [n \in Nodes |-> <<>>]
    /\ pc = [n \in Nodes |-> "Starting"]
    /\ waited = [n \in Nodes |-> 0]
    /\ fail_cause = [n \in Nodes |-> None]
    /\ game_request_tracker = [n \in Nodes |-> None]
    /\ lock = [n \in Nodes |-> "free"]
    /\ pending = [n \in Nodes |-> NoMsg]
    /\ dpc = [n \in Nodes |-> "unspawned"]
    /\ network = [n \in Nodes |-> {}]
    /\ sent = {}
    /\ sessions = [n \in Nodes |-> <<>>]
    /\ handled = [n \in Nodes |-> [msg |-> NoMsg, old |-> None]]
    /\ raw_mode = [n \in Nodes |-> FALSE]
    /\ alt_screen = [n \in Nodes |-> FALSE]
    /\ events = 0
    /\ names = [n \in Nodes |-> <<>>]
    /\ out = [n \in Nodes |-> NoOut]
    /\ heard = [n \in Nodes |-> <<>>]
    /\ notice = [n \in Nodes |-> <<>>]

Init ==
    /\ Unstarted
    /\ args = <<>>
    /\ called = FALSE
    /\ result = <<>>

Boot ==
    \E n \in Nodes :
        \/ Start(n)
        \/ Tick(n)
        \/ Online(n)
        \/ OnlineTimeout(n)
        \/ Host(n)
        \/ LocateHost(n)
        \/ Subscribed(n)
        \/ JoinTimeout(n)

Room ==
    \E n \in Nodes :
        \/ MinBegin(n)
        \/ MinSent(n)
        \/ Dispatch(n)

Leave == \E n \in Nodes : Quit(n)

Next == Boot \/ Room \/ Leave

\* every node has come up: "A" as the host, the others as joiners
InitReady ==
    /\ role = [n \in Nodes |-> IF n = "A" THEN "Open" ELSE "Join"]
    /\ secret_key = [n \in Nodes |-> IF n = "A" THEN host_key
                                     ELSE generate(n)]
    /\ bootstrap_nodes =
          [n \in Nodes |-> IF n = "A" THEN <<>> ELSE <<public(host_key)>>]
    /\ pc = [n \in Nodes |-> "Ready"]
    /\ waited = [n \in Nodes |-> 0]
    /\ fail_cause = [n \in Nodes |-> None]
    /\ game_request_tracker = [n \in Nodes |-> None]
    /\ lock = [n \in Nodes |-> "free"]
    /\ pending = [n \in Nodes |-> NoMsg]
    /\ dpc = [n \in Nodes |-> "recv"]
    /\ network = [n \in Nodes |-> {}]
    /\ sent = {}
    /\ sessions = [n \in Nodes |-> <<>>]
    /\ handled = [n \in Nodes |-> [msg |-> NoMsg, old |-> None]]
    /\ raw_mode = [n \in Nodes |-> FALSE]
    /\ alt_screen = [n \in Nodes |-> FALSE]
    /\ events = 0
    /\ names = [n \in Nodes |-> <<>>]
    /\ out = [n \in Nodes |-> NoOut]
    /\ heard = [n \in Nodes |-> <<>>]
    /\ notice = [n \in Nodes |-> <<>>]
    /\ args = <<>>
    /\ called = FALSE
    /\ result = <<>>

\* the room once every node is ready, while no node leaves
Spec == InitReady /\ [][Room]_vars

Game ==
    \E n \in Nodes : \E i \in SessionIds :
        \/ GameJoined(n, i)
        \/ GameSetup(n, i)
        \/ GameEvent(n, i)
        \/ ListenerRecv(n, i)

\* "A" asked, "B" accepted with some game id, every dispatcher has handled
\* both messages: the two sessions are spawned
InitGame ==
    \E g \in GameIds :
      LET req == GameRequest("A", <<"A", 0>>)
          start == GameStart("B", "A", g, <<"B", 0>>)
      IN
        /\ role = [n \in Nodes |-> IF n = "A" THEN "Open" ELSE "Join"]
        /\ secret_key = [n \in Nodes |-> IF n = "A" THEN host_key
                                         ELSE generate(n)]
        /\ bootstrap_nodes =
              [n \in Nodes |-> IF n = "A" THEN <<>> ELSE <<public(host_key)>>]
        /\ pc = [n \in Nodes |-> "Ready"]
        /\ waited = [n \in Nodes |-> 0]
        /\ fail_cause = [n \in Nodes |-> None]
        /\ game_request_tracker = [n \in Nodes |-> None]
        /\ lock = [n \in Nodes |-> "free"]
        /\ pending = [n \in Nodes |-> NoMsg]
        /\ dpc = [n \in Nodes |-> "recv"]
        /\ network = [n \in Nodes |-> {}]
        /\ sent = {[by |-> "A", topic |-> topic, msg |-> req],
                   [by |-> "B", topic |-> topic, msg |-> start]}
        /\ sessions = [n \in Nodes |->
               IF n = "A" THEN <<begin_game(g, <<"B">>)>>
               ELSE IF n = "B" THEN <<begin_game(g, <<>>)>>
               ELSE <<>>]
        /\ handled = [n \in Nodes |->
               IF n = "B" THEN [msg |-> req, old |-> None]
               ELSE [msg |-> start, old |-> "A"]]
        /\ raw_mode = [n \in Nodes |-> FALSE]
        /\ alt_screen = [n \in Nodes |-> FALSE]
        /\ events = 0
        /\ names = [n \in Nodes |-> <<>>]
        /\ out = [n \in Nodes |-> NoOut]
        /\ heard = [n \in Nodes |-> <<>>]
        /\ notice = [n \in Nodes |-> <<>>]
        /\ args = <<>>
        /\ called = FALSE
        /\ result = <<>>

\* "A" and "B" are ready and "C" has left with /quit
InitPair ==
    /\ role = [n \in Nodes |-> IF n = "A" THEN "Open" ELSE "Join"]
    /\ secret_key = [n \in Nodes |-> IF n = "A" THEN host_key
                                     ELSE generate(n)]
    /\ bootstrap_nodes =
          [n \in Nodes |-> IF n = "A" THEN <<>> ELSE <<public(host_key)>>]
    /\ pc = [n \in Nodes |-> IF n = "C" THEN "quit" ELSE "Ready"]
    /\ waited = [n \in Nodes |-> 0]
    /\ fail_cause = [n \in Nodes |-> None]
    /\ game_request_tracker = [n \in Nodes |-> None]
    /\ lock = [n \in Nodes |-> "free"]
    /\ pending = [n \in Nodes |-> NoMsg]
    /\ dpc = [n \in Nodes |-> IF n = "C" THEN "dead" ELSE "recv"]
    /\ network = [n \in Nodes |-> {}]
    /\ sent = {}
    /\ sessions = [n \in Nodes |-> <<>>]
    /\ handled = [n \in Nodes |-> [msg |-> NoMsg, old |-> None]]
    /\ raw_mode = [n \in Nodes |-> FALSE]
    /\ alt_screen = [n \in Nodes |-> FALSE]
    /\ events = 0
    /\ names = [n \in Nodes |-> <<>>]
    /\ out = [n \in Nodes |-> NoOut]
    /\ heard = [n \in Nodes |-> <<>>]
    /\ notice = [n \in Nodes |-> <<>>]
    /\ args = <<>>
    /\ called = FALSE
    /\ result = <<>>

\* main.rs:150-164: "B" was started with the nickname "Bea" and has
\* broadcast its AboutMe on becoming ready; "A", the host, has received it;
\* "C" has left with /quit
InitChat ==
    LET about == AboutMe("B", <<66, 101, 97>>, <<"B", 0>>) IN
    /\ role = [n \in Nodes |-> IF n = "A" THEN "Open" ELSE "Join"]
    /\ secret_key = [n \in Nodes |-> IF n = "A" THEN host_key
                                     ELSE generate(n)]
    /\ bootstrap_nodes =
          [n \in Nodes |-> IF n = "A" THEN <<>> ELSE <<public(host_key)>>]
    /\ pc = [n \in Nodes |-> IF n = "C" THEN "quit" ELSE "Ready"]
    /\ waited = [n \in Nodes |-> 0]
    /\ fail_cause = [n \in Nodes |-> None]
    /\ game_request_tracker = [n \in Nodes |-> None]
    /\ lock = [n \in Nodes |-> "free"]
    /\ pending = [n \in Nodes |-> NoMsg]
    /\ dpc = [n \in Nodes |-> IF n = "C" THEN "dead" ELSE "recv"]
    /\ network = [n \in Nodes |-> IF n = "A" THEN {about} ELSE {}]
    /\ sent = {[by |-> "B", topic |-> topic, msg |-> about]}
    /\ sessions = [n \in Nodes |-> <<>>]
    /\ handled = [n \in Nodes |-> [msg |-> NoMsg, old |-> None]]
    /\ raw_mode = [n \in Nodes |-> FALSE]
    /\ alt_screen = [n \in Nodes |-> FALSE]
    /\ events = 0
    /\ names = [n \in Nodes |-> <<>>]
    /\ out = [n \in Nodes |-> NoOut]
    /\ heard = [n \in Nodes |-> <<>>]
    /\ notice = [n \in Nodes |-> <<>>]
    /\ args = <<>>
    /\ called = FALSE
    /\ result = <<>>

\* the lines of the command loop that are not /min or /quit, and the
\* dispatcher
Chat ==
    \E n \in Nodes :
        \/ Nick(n)
        \/ Unknown(n)
        \/ Say(n)
        \/ Dispatch(n)

\* the chat of two nodes
SpecChat == InitChat /\ [][Chat]_vars

\* the room with payloads of foreign peers in it
ForeignRoom ==
    \E n \in Nodes :
        \/ MinBegin(n)
        \/ MinSent(n)
        \/ Dispatch(n)
        \/ Inject(n)

SpecForeign == InitChat /\ [][ForeignRoom]_vars

\* the room of a node whose writes to stdout may fail
PoisonRoom ==
    \E n \in Nodes :
        \/ MinBegin(n)
        \/ MinSent(n)
        \/ MinPoisoned(n)
        \/ Dispatch(n)
        \/ DispatchPanic(n)

SpecPoison == InitPair /\ [][PoisonRoom]_vars

\* the two sessions of an accepted request
SpecGame == InitGame /\ [][Game]_vars

\* the room while the sessions its handshakes spawn join their topics and
\* set up their terminals, before any terminal event is read
Match ==
    \/ Room
    \/ \E n \in Nodes : \E i \in SessionIds :
          \/ GameJoined(n, i)
          \/ GameSetup(n, i)

\* "A" asked and "B" accepted with the first game id: both sessions are
\* spawned; the dispatcher of "C" has handled the GameRequest and has the
\* GameStart still to read, so the slot of "C" holds "A"
InitMatched ==
    LET req == GameRequest("A", <<"A", 0>>)
        start == GameStart("B", "A", 1, <<"B", 0>>)
    IN
    /\ role = [n \in Nodes |-> IF n = "A" THEN "Open" ELSE "Join"]
    /\ secret_key = [n \in Nodes |-> IF n = "A" THEN host_key
                                     ELSE generate(n)]
    /\ bootstrap_nodes =
          [n \in Nodes |-> IF n = "A" THEN <<>> ELSE <<public(host_key)>>]
    /\ pc = [n \in Nodes |-> "Ready"]
    /\ waited = [n \in Nodes |-> 0]
    /\ fail_cause = [n \in Nodes |-> None]
    /\ game_request_tracker = [n \in Nodes |-> IF n = "C" THEN "A" ELSE None]
    /\ lock = [n \in Nodes |-> "free"]
    /\ pending = [n \in Nodes |-> NoMsg]
    /\ dpc = [n \in Nodes |-> "recv"]
    /\ network = [n \in Nodes |-> IF n = "C" THEN {start} ELSE {}]
    /\ sent = {[by |-> "A", topic |-> topic, msg |-> req],
               [by |-> "B", topic |-> topic, msg |-> start]}
    /\ sessions = [n \in Nodes |->
           IF n = "A" THEN <<begin_game(1, <<"B">>)>>
           ELSE IF n = "B" THEN <<begin_game(1, <<>>)>>
           ELSE <<>>]
    /\ handled = [n \in Nodes |->
           IF n = "A" THEN [msg |-> start, old |-> "A"]
           ELSE [msg |-> req, old |-> None]]
    /\ raw_mode = [n \in Nodes |-> FALSE]
    /\ alt_screen = [n \in Nodes |-> FALSE]
    /\ events = 0
    /\ names = [n \in Nodes |-> <<>>]
    /\ out = [n \in Nodes |->
           IF n = "A"
           THEN [kind |-> "started", a |-> fmt_short("B"),
                 b |-> fmt_short("A")]
           ELSE [kind |-> "queued", a |-> fmt_short("A"), b |-> <<>>]]
    /\ heard = [n \in Nodes |-> <<>>]
    /\ notice = [n \in Nodes |-> <<>>]
    /\ args = <<>>
    /\ called = FALSE
    /\ result = <<>>

SpecMatch == InitMatched /\ [][Match]_vars

\* "A" has typed /min on an empty slot and the dispatchers of "B" and "C"
\* have handled its GameRequest: every slot holds "A"
InitAsked ==
    LET req == GameRequest("A", <<"A", 0>>) IN
    /\ role = [n \in Nodes |-> IF n = "A" THEN "Open" ELSE "Join"]
    /\ secret_key = [n \in Nodes |-> IF n = "A" THEN host_key
                                     ELSE generate(n)]
    /\ bootstrap_nodes =
          [n \in Nodes |-> IF n = "A" THEN <<>> ELSE <<public(host_key)>>]
    /\ pc = [n \in Nodes |-> "Ready"]
    /\ waited = [n \in Nodes |-> 0]
    /\ fail_cause = [n \in Nodes |-> None]
    /\ game_request_tracker = [n \in Nodes |-> "A"]
    /\ lock = [n \in Nodes |-> "free"]
    /\ pending = [n \in Nodes |-> NoMsg]
    /\ dpc = [n \in Nodes |-> "recv"]
    /\ network = [n \in Nodes |-> {}]
    /\ sent = {[by |-> "A", topic |-> topic, msg |-> req]}
    /\ sessions = [n \in Nodes |-> <<>>]
    /\ handled = [n \in Nodes |->
           IF n = "A" THEN [msg |-> NoMsg, old |-> None]
           ELSE [msg |-> req, old |-> None]]
    /\ raw_mode = [n \in Nodes |-> FALSE]
    /\ alt_screen = [n \in Nodes |-> FALSE]
    /\ events = 0
    /\ names = [n \in Nodes |-> <<>>]
    /\ out = [n \in Nodes |->
           IF n = "A" THEN NoOut
           ELSE [kind |-> "queued", a |-> fmt_short("A"), b |-> <<>>]]
    /\ heard = [n \in Nodes |-> <<>>]
    /\ notice = [n \in Nodes |-> <<>>]
    /\ args = <<>>
    /\ called = FALSE
    /\ result = <<>>

\* the room once a challenger waits in every slot
SpecAsked == InitAsked /\ [][Room]_vars

(***************************************************************************)
(* bytes_from_str applied to two strings.                                  *)
(***************************************************************************)
\* the strings it is applied to: of a length near zero or around 32, all
\* "a" but for at most one byte, which is "b" or the zero byte
StrLens == {0, 1} \cup 31..MaxStrLen

Strs ==
    UNION {{[i \in 1..len |-> 97]}
           \cup {[i \in 1..len |-> IF i = at THEN b ELSE 97] :
                     at \in 1..len, b \in {0, 98}} : len \in StrLens}

InitBytes ==
    /\ Unstarted
    /\ \E s \in Strs : \E t \in Strs : args = [s |-> s, t |-> t]
    /\ called = FALSE
    /\ result = <<>>

\* main.rs:66, 71, 123: the calls of bytes_from_str
DeriveTopic ==
    /\ ~called
    /\ called' = TRUE
    /\ result' = [s |-> bytes_from_str(args.s), t |-> bytes_from_str(args.t)]
    /\ UNCHANGED <<args, notice, chatVars, termVars, bootVars, pc, slotVars,
                   dispVars, network, sent, sessions>>

SpecBytes == InitBytes /\ [][DeriveTopic]_vars

(***************************************************************************)
(* The codec: MinimalMessage::to_vec and from_bytes (main.rs:266-276),     *)
(* which are serde_json on the derived Serialize and Deserialize of        *)
(* main.rs:241-264.  A JSON text is written as its value: a string         *)
(* [str |-> the characters between the quotes], a number [num |-> its      *)
(* characters], an array [arr |-> values], an object [obj |-> the          *)
(* <<key, value>> members in order].                                       *)
(***************************************************************************)
\* a natural number in decimal
RECURSIVE decimal(_)
decimal(k) ==
    IF k < 10 THEN <<48 + k>> ELSE decimal(k \div 10) \o <<48 + (k % 10)>>

RECURSIVE parse_decimal(_)
parse_decimal(chars) ==
    IF chars = <<>> THEN 0
    ELSE 10 * parse_decimal(SubSeq(chars, 1, Len(chars) - 1))
         + (chars[Len(chars)] - 48)

is_digits(chars) ==
    chars # <<>> /\ \A i \in 1..Len(chars) : chars[i] \in 48..57

\* a string written with its line feeds, quotes and backslashes as they are
escape_none(chars) == chars

\* the characters of a JSON string: line feed, quote and backslash are
\* written as backslash and n, quote, backslash
RECURSIVE escape(_)
escape(chars) ==
    IF chars = <<>> THEN <<>>
    ELSE (IF Head(chars) = 10 THEN <<92, 110>>
          ELSE IF Head(chars) \in {34, 92} THEN <<92, Head(chars)>>
          ELSE <<Head(chars)>>) \o escape(Tail(chars))

RECURSIVE unescape(_)
unescape(chars) ==
    IF chars = <<>> THEN <<>>
    ELSE IF Head(chars) = 92 /\ Len(chars) > 1
    THEN <<IF chars[2] = 110 THEN 10 ELSE chars[2]>>
         \o unescape(Tail(Tail(chars)))
    ELSE <<Head(chars)>> \o unescape(Tail(chars))

\* a PublicKey is written as the hex of its 32 bytes
RECURSIVE to_hex(_)
to_hex(bytes) ==
    IF Len(bytes) = 0 THEN <<>>
    ELSE hex(bytes[1]) \o to_hex(SubSeq(bytes, 2, Len(bytes)))

unhex_digit(c) == IF c \in 48..57 THEN c - 48 ELSE c - 87
from_hex(chars) ==
    [i \in 1..(Len(chars) \div 2) |->
        16 * unhex_digit(chars[2 * i - 1]) + unhex_digit(chars[2 * i])]

\* an f64 with no fraction is written with ".0" after its integer digits
f64_json(game_id) == [num |-> decimal(game_id) \o <<46, 48>>]
node_json(from) == [str |-> to_hex(as_bytes(from))]
string_json(chars) == [str |-> escape(chars)]

\* an enum variant is written as an object with the variant's name as its
\* one key
tagged(variant, value) == [obj |-> <<<<variant, value>>>>]

\* ChatMessage and GameMessage (main.rs:253-264)
body_json(m) ==
    IF m.type = "Aborted"
    THEN tagged("Game", tagged("Aborted", [obj |-> <<>>]))
    ELSE tagged("Chat", tagged(m.type,
        IF m.type = "AboutMe"
        THEN [obj |-> <<<<"from", node_json(m.from)>>,
                        <<"name", string_json(m.name)>>>>]
        ELSE IF m.type = "Message"
        THEN [obj |-> <<<<"from", node_json(m.from)>>,
                        <<"text", string_json(m.text)>>>>]
        ELSE IF m.type = "GameRequest"
        THEN [obj |-> <<<<"from", node_json(m.from)>>>>]
        ELSE [obj |-> <<<<"from", node_json(m.from)>>,
                        <<"orig_sender", node_json(m.orig_sender)>>,
                        <<"game_id", f64_json(m.game_id)>>>>]))

\* MinimalMessage::to_vec (main.rs:273-275)
to_vec(m) ==
    [obj |-> <<<<"body", body_json(m)>>,
               <<"nonce", [arr |-> [i \in 1..Len(m.nonce) |->
                                       [num |-> decimal(m.nonce[i])]]]>>>>]

\* the keys of an object, in order; of another value, none
keys(value) ==
    IF "obj" \in DOMAIN value
    THEN [i \in 1..Len(value.obj) |-> value.obj[i][1]]
    ELSE <<"not an object">>
member(value, i) == value.obj[i][2]

is_node(value) ==
    /\ "str" \in DOMAIN value
    /\ Len(value.str) = 64
    /\ \E p \in Nodes : as_bytes(p) = from_hex(value.str)
node_of(value) == CHOOSE p \in Nodes : as_bytes(p) = from_hex(value.str)

is_f64(value) ==
    /\ "num" \in DOMAIN value
    /\ Len(value.num) > 2
    /\ SubSeq(value.num, Len(value.num) - 1, Len(value.num)) = <<46, 48>>
    /\ is_digits(SubSeq(value.num, 1, Len(value.num) - 2))
f64_of(value) == parse_decimal(SubSeq(value.num, 1, Len(value.num) - 2))

is_nonce(value) ==
    /\ "arr" \in DOMAIN value
    /\ Len(value.arr) = 16
    /\ \A i \in 1..16 : /\ "num" \in DOMAIN value.arr[i]
                         /\ is_digits(value.arr[i].num)
                         /\ parse_decimal(value.arr[i].num) < 256
nonce_of(value) == [i \in 1..16 |-> parse_decimal(value.arr[i].num)]

Err == [ok |-> FALSE, msg |-> NoMsg]
Ok(m) == [ok |-> TRUE, msg |-> m]

\* the ChatMessage of a variant object
chat_of(variant, fields, nonce) ==
    IF /\ variant = "AboutMe" /\ keys(fields) = <<"from", "name">>
       /\ is_node(member(fields, 1)) /\ "str" \in DOMAIN member(fields, 2)
    THEN Ok(AboutMe(node_of(member(fields, 1)),
                    unescape(member(fields, 2).str), nonce))
    ELSE IF /\ variant = "Message" /\ keys(fields) = <<"from", "text">>
            /\ is_node(member(fields, 1))
            /\ "str" \in DOMAIN member(fields, 2)
    THEN Ok(Message(node_of(member(fields, 1)),
                    unescape(member(fields, 2).str), nonce))
    ELSE IF /\ variant = "GameRequest" /\ keys(fields) = <<"from">>
            /\ is_node(member(fields, 1))
    THEN Ok(GameRequest(node_of(member(fields, 1)), nonce))
    ELSE IF /\ variant = "GameStart"
            /\ keys(fields) = <<"from", "orig_sender", "game_id">>
            /\ is_node(member(fields, 1)) /\ is_node(member(fields, 2))
            /\ is_f64(member(fields, 3))
    THEN Ok(GameStart(node_of(member(fields, 1)), node_of(member(fields, 2)),
                      f64_of(member(fields, 3)), nonce))
    ELSE Err

\* MinimalMessage::from_bytes (main.rs:267-269)
from_bytes(value) ==
    IF ~(keys(value) = <<"body", "nonce">> /\ is_nonce(member(value, 2)))
    THEN Err
    ELSE LET body == member(value, 1)
             nonce == nonce_of(member(value, 2))
         IN  IF keys(body) = <<"Chat">> /\ Len(keys(member(body, 1))) = 1
             THEN chat_of(keys(member(body, 1))[1],
                          member(member(body, 1), 1), nonce)
             ELSE IF /\ keys(body) = <<"Game">>
                     /\ keys(member(body, 1)) = <<"Aborted">>
                     /\ keys(member(member(body, 1), 1)) = <<>>
             THEN Ok(Aborted(nonce))
             ELSE Err

\* the nonces rand::random may draw (main.rs:271)
Nonces ==
    {[i \in 1..16 |-> 0], [i \in 1..16 |-> 255], [i \in 1..16 |-> 15 * i]}

\* names and texts: "", "Bea", "hi" and a line feed, a quote, a backslash
\* and the letter n
CodecStrings ==
    {<<>>, <<66, 101, 97>>, <<104, 105, 10>>, <<34, 92, 110>>}

\* game ids: rand::random_range(0.0..=1e9) (main.rs:204)
CodecGameIds == 0..MaxGameId \cup {10, 1000000000}

\* the messages the program makes (main.rs:159, 189, 205, 216, 228, 374)
Messages ==
    UNION {{AboutMe(p, str, x) : p \in Nodes, str \in CodecStrings}
           \cup {Message(p, str, x) : p \in Nodes, str \in CodecStrings}
           \cup {GameRequest(p, x) : p \in Nodes}
           \cup {GameStart(p, q, g, x) :
                     p \in Nodes, q \in Nodes, g \in CodecGameIds}
           \cup {Aborted(x)} : x \in Nonces}

InitCodec ==
    /\ Unstarted
    /\ \E m \in Messages : args = [msg |-> m]
    /\ called = FALSE
    /\ result = <<>>

\* a message is encoded by its sender (main.rs:163) and decoded by a
\* receiver (main.rs:293, 439)
RoundTrip ==
    /\ ~called
    /\ called' = TRUE
    /\ result' = [wire |-> to_vec(args.msg),
                  decoded |-> from_bytes(to_vec(args.msg))]
    /\ UNCHANGED <<args, notice, chatVars, termVars, bootVars, pc, slotVars,
                   dispVars, network, sent, sessions>>

SpecCodec == InitCodec /\ [][RoundTrip]_vars

(***************************************************************************)
(* The crafting table: min.rs:17-98.  A HashBag is written as the function *)
(* from each Component to the number of times it is in the bag.            *)
(***************************************************************************)
\* min.rs:18-27
Colors == {"Red", "Green", "Blue"}
Skills == {"Attack", "Block", "Buff", "Debuff", "Stun"}
Components == Colors \cup Skills

\* min.rs:60-62
is_color(component) == component \in {"Red", "Green", "Blue"}

\* min.rs:10-15, 80-81
make_hashbag(items) ==
    [c \in Components |->
        Cardinality({i \in 1..Len(items) : items[i] = c})]

\* min.rs:78-91
make_skill(name, description, items) ==
    [name |-> name, description |-> description,
     components |-> make_hashbag(items)]

get_all_recipes ==
    <<make_skill("Attack", "Deal 80% of Red power as Red damage",
                 <<"Attack">>),
      make_skill("Block", "no idea tbh", <<"Block">>),
      make_skill("Buff", "no idea tbh 2", <<"Buff">>),
      make_skill("Debuff", "no idea tbh 3", <<"Debuff">>),
      make_skill("Stun", "no idea tbh 4", <<"Stun">>)>>

\* a match on the recipe's components being among the input's
bag_includes(components, recipe) ==
    \A c \in Components : components[c] >= recipe[c]

\* min.rs:94: HashBag equality, the same count of every component
bag_equal(components, recipe) == components = recipe

\* min.rs:92-97: the first recipe with exactly these components, as
\* <<recipe>>, or None, as <<>>
craft(components) ==
    LET hits == {i \in 1..Len(get_all_recipes) :
                    bag_equal(components, get_all_recipes[i].components)}
    IN  IF hits = {} THEN <<>>
        ELSE <<get_all_recipes[CHOOSE i \in hits :
                                  \A j \in hits : i <= j]>>

\* min.rs:41-48: unwrap panics on None
get_description(component) ==
    IF component = "Red"
    THEN [panicked |-> FALSE,
          text |-> "Fast speed, physical type. Chaos and momentum."]
    ELSE IF component = "Green"
    THEN [panicked |-> FALSE,
          text |-> "Normal speed, healing type. Protection and trickery."]
    ELSE IF component = "Blue"
    THEN [panicked |-> FALSE,
          text |-> "Slow speed, magical type. Deterrents and destruction."]
    ELSE LET crafted == craft(make_hashbag(<<component>>))
         IN  IF crafted = <<>> THEN [panicked |-> TRUE, text |-> ""]
             ELSE [panicked |-> FALSE, text |-> crafted[1].description]

\* the lists of components a bag is made of
Items == UNION {[1..len -> Components] : len \in 0..MaxBagSize}

InitCraft ==
    /\ Unstarted
    /\ \E items \in Items : \E component \in Components :
          args = [items |-> items, component |-> component]
    /\ called = FALSE
    /\ result = <<>>

\* min.rs:46, 137, 149: the calls of craft and get_description
Craft ==
    /\ ~called
    /\ called' = TRUE
    /\ result' = [crafted |-> craft(make_hashbag(args.items)),
                  description |-> get_description(args.component)]
    /\ UNCHANGED <<args, notice, chatVars, termVars, bootVars, pc, slotVars,
                   dispVars, network, sent, sessions>>

SpecCraft == InitCraft /\ [][Craft]_vars

\* the whole program from process start, its room followed for
\* MaxBootSent broadcasts
NextBoot ==
    \/ Boot
    \/ Room /\ Cardinality(sent') + Cardinality(
                 {n \in Nodes : pc'[n] \in MinStates}) <= MaxBootSent
    \/ Leave

SpecBoot == Init /\ [][NextBoot]_vars

(***************************************************************************)
(* Vocabulary of the properties.                                           *)
(***************************************************************************)
\* the room broadcasts of one kind made so far
SentOf(type) == {s \in sent : s.topic = topic /\ s.msg.type = type}

\* node n's dispatcher has handled the room message of broadcast s
HandledBy(n, s) ==
    /\ n # s.by
    /\ pc[n] # "quit"
    /\ s.msg \notin network[n]

\* a session for game id g, on the topic derived from g, with this
\* bootstrap list
IsSession(session, g, bootstrap) ==
    /\ session.game_id = g
    /\ session.topic = game_topic(g)
    /\ session.bootstrap = bootstrap

\* n's step spawns one more session, for game id g with this bootstrap list
Spawns(n, g, bootstrap) ==
    /\ Len(sessions'[n]) = Len(sessions[n]) + 1
    /\ SubSeq(sessions'[n], 1, Len(sessions[n])) = sessions[n]
    /\ IsSession(sessions'[n][Len(sessions'[n])], g, bootstrap)
    /\ sessions'[n][Len(sessions'[n])].loop = "joining"

\* node n has spawned a session for game id g with this bootstrap list
HasSession(n, g, bootstrap) ==
    \E i \in 1..Len(sessions[n]) : IsSession(sessions[n][i], g, bootstrap)

\* this step is n's dispatcher handling message m
Dispatched(n, m) ==
    /\ m \in network[n]
    /\ m \notin network'[n]
    /\ pc'[n] # "quit"

\* this step is the end of n's /min: the broadcast has returned
MinDone(n) == pc[n] \in MinStates /\ pc'[n] = "Ready"

(***************************************************************************)
(* C1  Matchmaking handshake.  Every GameStart{from: B, orig_sender: A,    *)
(* game_id: g} that was broadcast answers a GameRequest of A, was sent by  *)
(* B, and B has a session on game_topic(g) with an empty bootstrap list;   *)
(* once A's dispatcher has handled it, A has a session on the same topic   *)
(* with bootstrap list <<B>>.  The step that broadcasts it empties B's     *)
(* slot.                                                                   *)
(***************************************************************************)
HandshakeInv ==
    \A s \in SentOf("GameStart") :
        LET m == s.msg IN
        /\ m.from = s.by
        /\ \E r \in SentOf("GameRequest") : r.by = m.orig_sender
        /\ HasSession(s.by, m.game_id, <<>>)
        /\ HandledBy(m.orig_sender, s) =>
               HasSession(m.orig_sender, m.game_id, <<m.from>>)

HandshakeStep ==
    \A n \in Nodes :
        /\ pc[n] = "Ready" /\ pc'[n] \in MinStates
             /\ game_request_tracker[n] # None
           => /\ pc'[n] = "min_start"
              /\ pending'[n].orig_sender = game_request_tracker[n]
        /\ pc[n] = "min_start" /\ pc'[n] = "Ready"
           => game_request_tracker'[n] = None

C1_Handshake == []HandshakeInv /\ [][HandshakeStep]_vars

\* A asked, B accepted, A has handled the GameStart: both are in a session
C1_Witness ==
    \E s \in SentOf("GameStart") :
        /\ s.msg.orig_sender # s.by
        /\ HandledBy(s.msg.orig_sender, s)
        /\ HasSession(s.by, s.msg.game_id, <<>>)
        /\ HasSession(s.msg.orig_sender, s.msg.game_id, <<s.by>>)
        /\ game_request_tracker[s.by] = None

(***************************************************************************)
(* C2  A slot holds at most one PeerId, and the step in which a node       *)
(* handles a GameStart, received or broadcast by its own /min, leaves its  *)
(* slot empty whatever it held.                                            *)
(***************************************************************************)
C2_StartEmptiesSlot ==
    /\ [](\A n \in Nodes : game_request_tracker[n] \in Nodes \cup {None})
    /\ [][\A n \in Nodes :
            /\ \A m \in network[n] :
                 m.type = "GameStart" /\ Dispatched(n, m)
                 => game_request_tracker'[n] = None
            /\ pc[n] = "min_start" /\ MinDone(n)
                 => game_request_tracker'[n] = None]_vars

\* a received GameStart has just emptied a slot that held someone other
\* than its orig_sender
C2_Witness ==
    \E n \in Nodes :
        /\ handled[n].msg.type = "GameStart"
        /\ handled[n].old \notin {None, handled[n].msg.orig_sender}
        /\ game_request_tracker[n] = None

(***************************************************************************)
(* C3  Last request wins: the step in which a dispatcher handles           *)
(* GameRequest{from} sets the slot to from, whatever it held.              *)
(***************************************************************************)
C3_LastRequestWins ==
    [][\A n \in Nodes : \A m \in network[n] :
          m.type = "GameRequest" /\ Dispatched(n, m)
          => game_request_tracker'[n] = m.from]_vars

\* a request has just overwritten another node's request
C3_Witness ==
    \E n \in Nodes :
        /\ handled[n].msg.type = "GameRequest"
        /\ handled[n].old \notin {None, n, handled[n].msg.from}
        /\ game_request_tracker[n] = handled[n].msg.from

(***************************************************************************)
(* C4  The outcome of /min is decided by the slot's contents when the lock *)
(* is taken.  Slot holding other: exactly one broadcast, GameStart{from:   *)
(* self, orig_sender: other, game_id}, the slot is cleared and a session   *)
(* with an empty bootstrap list is spawned.  Slot empty: exactly one       *)
(* broadcast, GameRequest{from: self}, the slot becomes Some(self) and no  *)
(* session is spawned.                                                     *)
(***************************************************************************)
MinOutcome(n) ==
    /\ pc[n] = "Ready" /\ pc'[n] \in MinStates
       => /\ pc'[n] = "min_start" <=> game_request_tracker[n] # None
          /\ pc'[n] = "min_start"
             => pending'[n].orig_sender = game_request_tracker[n]
    /\ pc[n] = "min_start" /\ MinDone(n)
       => \E g \in GameIds :
            /\ sent' \ sent =
                 {[by |-> n, topic |-> topic,
                   msg |-> GameStart(n, game_request_tracker[n], g,
                                     pending[n].nonce)]}
            /\ game_request_tracker[n] # None
            /\ game_request_tracker'[n] = None
            /\ Spawns(n, g, <<>>)
    /\ pc[n] = "min_req" /\ MinDone(n)
       => /\ sent' \ sent =
               {[by |-> n, topic |-> topic,
                 msg |-> GameRequest(n, pending[n].nonce)]}
          /\ game_request_tracker[n] = None
          /\ game_request_tracker'[n] = n
          /\ sessions'[n] = sessions[n]

C4_MinOutcome == [][\A n \in Nodes : MinOutcome(n)]_vars

\* both outcomes have happened: one node waits on its own request, another
\* accepted a request and is in a session
C4_Witness ==
    \E r \in SentOf("GameRequest") : \E s \in SentOf("GameStart") :
        /\ game_request_tracker[r.by] = r.by
        /\ Len(sessions[r.by]) = 0
        /\ s.by # r.by
        /\ game_request_tracker[s.by] = None
        /\ Len(sessions[s.by]) = 1

(***************************************************************************)
(* C5  Within a node, /min's read-decide-write of the slot and the         *)
(* dispatcher's handling of a GameRequest or GameStart exclude each other: *)
(* from /min's read to its write main holds the lock, the slot is what     *)
(* main read, and no step of the dispatcher reads or writes it.            *)
(***************************************************************************)
MinHoldsSlot(n) ==
    pc[n] \in MinStates
    => /\ lock[n] = "main"
       /\ pc[n] = "min_req" => game_request_tracker[n] = None
       /\ pc[n] = "min_start"
          => game_request_tracker[n] = pending[n].orig_sender

NoDispatchInsideMin(n) ==
    pc[n] \in MinStates
    => /\ \A m \in network[n] : ~Dispatched(n, m)
       /\ ~MinDone(n) => game_request_tracker'[n] = game_request_tracker[n]
       /\ handled'[n] = handled[n]

C5_MutualExclusion ==
    /\ [](\A n \in Nodes : MinHoldsSlot(n))
    /\ [][\A n \in Nodes : NoDispatchInsideMin(n)]_vars

\* main is between its read and its write while a matchmaking message
\* waits for the dispatcher
C5_Witness ==
    \E n \in Nodes :
        /\ pc[n] \in MinStates
        /\ \E m \in network[n] : m.type \in {"GameRequest", "GameStart"}

(***************************************************************************)
(* C6  The slot's lock is never held while a broadcast of /min is awaited: *)
(* a node waiting for its GameRequest or GameStart to be sent has its lock *)
(* free.                                                                   *)
(***************************************************************************)
C6_LockFreeWhileSending ==
    \A n \in Nodes : pc[n] \in MinStates => lock[n] = "free"

(***************************************************************************)
(* C7  Cross-peer race.  When the only broadcasts made are a GameRequest   *)
(* of a and a GameRequest of b, and each has handled the other's, a's slot *)
(* holds b and b's holds a, and a /min begun by either is an accept that   *)
(* names the other as orig_sender.                                         *)
(***************************************************************************)
Raced(a, b) ==
    /\ a # b
    /\ \E ra \in sent : \E rb \in sent :
         /\ sent = {ra, rb}
         /\ ra.by = a /\ ra.msg.type = "GameRequest"
         /\ rb.by = b /\ rb.msg.type = "GameRequest"
         /\ HandledBy(a, rb)
         /\ HandledBy(b, ra)

Waits(x, y) ==
    /\ game_request_tracker[x] = y
    /\ pc[x] \in MinStates
       => /\ pc[x] = "min_start"
          /\ pending[x].type = "GameStart"
          /\ pending[x].from = x
          /\ pending[x].orig_sender = y

C7_CrossPeerRace ==
    \A a \in Nodes : \A b \in Nodes :
        Raced(a, b) => Waits(a, b) /\ Waits(b, a)

\* after the race one of the two has begun the /min that accepts the other
C7_Witness ==
    \E a \in Nodes : \E b \in Nodes :
        /\ Raced(a, b)
        /\ pc[a] = "min_start"
        /\ pending[a].orig_sender = b

(***************************************************************************)
(* C8  Bootstrap fails closed.  A node in a wait under the timeout whose   *)
(* timeout has expired can only go to Failed; Failed is never left (no     *)
(* retry, Ready is never reached); a node whose timeout fired has no       *)
(* dispatcher, no slot activity, no session and has broadcast nothing.     *)
(***************************************************************************)
TimeoutCauses == {"online_timeout", "join_timeout"}

InTimedWait(n) ==
    \/ pc[n] = "ConnectingTransport"
    \/ pc[n] = "Joining" /\ role[n] = "Join"

FailedClosed(n) ==
    fail_cause[n] \in TimeoutCauses
    => /\ pc[n] = "Failed"
       /\ dpc[n] = "unspawned"
       /\ lock[n] = "free"
       /\ game_request_tracker[n] = None
       /\ sessions[n] = <<>>
       /\ network[n] = {}
       /\ \A s \in sent : s.by # n

FailedStep(n) ==
    /\ InTimedWait(n) /\ timed_out(waited[n]) /\ pc'[n] # pc[n]
       => pc'[n] = "Failed" /\ fail_cause'[n] \in TimeoutCauses
    /\ pc[n] = "Failed"
       => pc'[n] = "Failed" /\ fail_cause'[n] = fail_cause[n]

C8_FailsClosed ==
    /\ [](\A n \in Nodes : FailedClosed(n))
    /\ [][\A n \in Nodes : FailedStep(n)]_vars

\* both timeouts have fired, each on its node, and the room of the node
\* that came up has carried a broadcast since
C8_Witness ==
    \E n \in Nodes : \E j \in Nodes :
        /\ pc[n] = "Failed" /\ fail_cause[n] = "online_timeout"
        /\ pc[j] = "Failed" /\ fail_cause[j] = "join_timeout"
        /\ sent # {}

(***************************************************************************)
(* C9  Open binds the deterministic host key, has an empty bootstrap list  *)
(* and subscribes under no timeout: past ConnectingTransport a host is     *)
(* never Failed, however long the subscribe lasts.  Join has the bootstrap *)
(* list of exactly the derived host identity and its subscribe is under    *)
(* the timeout: it never becomes Ready once the timeout has expired.       *)
(***************************************************************************)
PastRoleBranch(n) == pc[n] \notin {"Starting", "ConnectingTransport",
                                   "Hosting", "LocatingHost", "Failed"}

RoleInv(n) ==
    /\ role[n] = "Open"
       => /\ secret_key[n] = host_key
          /\ bootstrap_nodes[n] = <<>>
          /\ pc[n] = "Failed" => fail_cause[n] = "online_timeout"
    /\ role[n] = "Join"
       => /\ secret_key[n] # host_key
          /\ PastRoleBranch(n)
             => /\ Len(bootstrap_nodes[n]) = 1
                /\ \A h \in Nodes : role[h] = "Open" =>
                      bootstrap_nodes[n][1] = public(secret_key[h])
          /\ pc[n] = "Joining"
             => waited[n] < CONNECTION_TIMEOUT_SECS + TickSecs

RoleStep(n) ==
    /\ pc[n] = "Joining" /\ role[n] = "Join" /\ pc'[n] = "Ready"
       => waited[n] < CONNECTION_TIMEOUT_SECS
    /\ pc[n] = "Joining" /\ role[n] = "Open" /\ pc'[n] # pc[n]
       => pc'[n] = "Ready"

C9_RoleBranch ==
    /\ [](\A n \in Nodes : RoleInv(n))
    /\ [][\A n \in Nodes : RoleStep(n)]_vars

\* a host became ready after a subscribe longer than the timeout, and a
\* joiner with the host's identity as its bootstrap list is subscribing
C9_Witness ==
    \E h \in Nodes : \E j \in Nodes :
        /\ role[h] = "Open" /\ pc[h] = "Ready"
        /\ waited[h] > CONNECTION_TIMEOUT_SECS
        /\ role[j] = "Join" /\ pc[j] = "Joining"
        /\ bootstrap_nodes[j] = <<public(secret_key[h])>>

(***************************************************************************)
(* C10  When a session's listener has received Aborted from the peer, the  *)
(* whole session on that node is over at once: the terminal is restored    *)
(* and the input loop, once it was entered, has ended, with no further     *)
(* terminal event read.                                                    *)
(***************************************************************************)
C10_AbortedEndsSession ==
    \A n \in Nodes : \A i \in 1..Len(sessions[n]) :
        sessions[n][i].listener = "ended" /\ sessions[n][i].loop # "setup"
        => /\ sessions[n][i].loop = "ended"
           /\ ~raw_mode[n]
           /\ ~alt_screen[n]

(***************************************************************************)
(* C11  A session whose terminal is smaller than MIN_TERM_COLS x            *)
(* MIN_TERM_ROWS, at its start or after a resize, has left its input loop  *)
(* and restored the terminal: raw mode off, alternate screen left.         *)
(***************************************************************************)
C11_TooSmallEndsSession ==
    \A n \in Nodes : \A i \in 1..Len(sessions[n]) :
        LET session == sessions[n][i] IN
        /\ session.loop \in {"running", "ended"}
        /\ too_small(session.term_cols, session.term_rows)
        => /\ session.loop = "ended"
           /\ ~raw_mode[n]
           /\ ~alt_screen[n]

(***************************************************************************)
(* C12  The turn of the input loop that handles the key 'q' restores the   *)
(* terminal, makes exactly one broadcast, an Aborted on the session topic, *)
(* and leaves the loop; a loop that was left reads no further event,       *)
(* draws no frame and broadcasts nothing.                                  *)
(***************************************************************************)
\* this step is a turn of session i's loop that handles the key 'q'
QuitTurn(n, i) ==
    /\ sessions[n][i].loop = "running"
    /\ sessions'[n][i].frames = sessions[n][i].frames + 1
    /\ sessions'[n][i].event.kind = "q"

\* the broadcasts of n on the topic of its session i
SessionSent(n, i, all) ==
    {s \in all : s.by = n /\ s.topic = sessions[n][i].topic}

QuitStep(n, i) ==
    QuitTurn(n, i)
    => /\ ~raw_mode'[n]
       /\ ~alt_screen'[n]
       /\ sessions'[n][i].loop = "ended"
       /\ \E s \in sent' \ sent :
            /\ sent' \ sent = {s}
            /\ s \in SessionSent(n, i, sent')
            /\ s.msg.type = "Aborted"

EndedStep(n, i) ==
    sessions[n][i].loop = "ended"
    => /\ sessions'[n][i].loop = "ended"
       /\ sessions'[n][i].event = sessions[n][i].event
       /\ sessions'[n][i].frames = sessions[n][i].frames
       /\ SessionSent(n, i, sent') = SessionSent(n, i, sent)

DecodeFailureStep(n) ==
    Malformed \in network[n] /\ Malformed \notin network'[n]
    => dpc'[n] = "failed"

FailedDispatcherStep(n) ==
    dpc[n] = "failed"
    => /\ dpc'[n] = "failed"
       /\ handled'[n] = handled[n]
       /\ names'[n] = names[n]
       /\ out'[n] = out[n]
       /\ heard'[n] = heard[n]
       /\ game_request_tracker'[n] # game_request_tracker[n] => MinDone(n)
       /\ sessions'[n] # sessions[n]
          => /\ pc[n] = "min_start" /\ MinDone(n)
             /\ Spawns(n, pending[n].game_id, <<>>)

CommandsStillTaken(n) ==
    dpc[n] = "failed" /\ pc[n] = "Ready" /\ Broadcasts < MaxSent
    => ENABLED MinBegin(n) /\ ENABLED Nick(n)

C13_DecodeFailureIsFatal ==
    /\ [](\A n \in Nodes : CommandsStillTaken(n))
    /\ [][\A n \in Nodes :
            DecodeFailureStep(n) /\ FailedDispatcherStep(n)]_vars

\* a node whose dispatcher failed on a foreign payload before it handled a
\* peer's AboutMe knows no name, and is broadcasting in /min
C13_Witness ==
    \E n \in Nodes : \E s \in SentOf("AboutMe") :
        /\ dpc[n] = "failed"
        /\ s.by # n
        /\ names[n] = <<>>
        /\ heard[n] = <<>>
        /\ pc[n] \in MinStates

(***************************************************************************)
(* C14  A node whose slot lock cannot be acquired stays in its command     *)
(* loop: every step it takes while the lock is poisoned leaves main ready  *)
(* for the next line, the slot as it was, no broadcast made and no session *)
(* started.                                                                *)
(***************************************************************************)
C14_LockFailureRecovers ==
    [][\A n \in Nodes :
          lock[n] = "poisoned" /\ pc[n] = "Ready"
          => /\ pc'[n] = "Ready"
             /\ game_request_tracker'[n] = game_request_tracker[n]
             /\ sessions'[n] = sessions[n]
             /\ {s \in sent' : s.by = n} = {s \in sent : s.by = n}]_vars

(***************************************************************************)
(* C15  Command misuse is never broadcast: no broadcast is the AboutMe     *)
(* with the empty name that a /nick with no name would make, and no        *)
(* broadcast carries the text of a line that starts with "/".              *)
(***************************************************************************)
C15_MisuseNotBroadcast ==
    \A s \in sent :
        /\ s.msg.type = "AboutMe" => s.msg.name # <<>>
        /\ s.msg.type = "Message" => ~starts_with(s.msg.text, SLASH)

(***************************************************************************)
(* C16  Attribution.  For the AboutMe and Message messages a dispatcher    *)
(* has handled, in order: the label of peer p is the name of the last      *)
(* AboutMe from p, or p's short identity when there is none; a Message     *)
(* from p is printed under p's label at that point; an AboutMe from p is   *)
(* printed as a rename from p's label just before it to its name, and the  *)
(* step that handles it changes no other peer's entry of the directory.    *)
(***************************************************************************)
RECURSIVE LastName(_, _)
LastName(log, p) ==
    IF log = <<>> THEN fmt_short(p)
    ELSE LET m == log[Len(log)] IN
         IF m.type = "AboutMe" /\ m.from = p THEN m.name
         ELSE LastName(SubSeq(log, 1, Len(log) - 1), p)

Attributed(n) ==
    /\ \A p \in Nodes : get_name(names[n], p) = LastName(heard[n], p)
    /\ heard[n] # <<>>
       => LET m == heard[n][Len(heard[n])]
              before == SubSeq(heard[n], 1, Len(heard[n]) - 1)
          IN  /\ handled[n].msg = m
              /\ m.type = "Message"
                 => out[n] = [kind |-> "chat", a |-> LastName(before, m.from),
                              b |-> trim(m.text)]
              /\ m.type = "AboutMe"
                 => out[n] = [kind |-> "rename",
                              a |-> LastName(before, m.from), b |-> m.name]

OnlyOwnEntry(n) ==
    \A m \in network[n] :
        m.type = "AboutMe" /\ Dispatched(n, m)
        => /\ DOMAIN names'[n] = DOMAIN names[n] \cup {m.from}
           /\ names'[n][m.from] = m.name
           /\ \A q \in DOMAIN names[n] \ {m.from} :
                 names'[n][q] = names[n][q]

PaddedOrCut(str, bytes) ==
    /\ Len(bytes) = 32
    /\ Len(str) <= 32
       => \A i \in 1..32 : bytes[i] = IF i <= Len(str) THEN str[i] ELSE 0
    /\ Len(str) > 32 => \A i \in 1..32 : bytes[i] = str[i]

C17_DeriveTopic ==
    called
    => /\ PaddedOrCut(args.s, result.s)
       /\ PaddedOrCut(args.t, result.t)
       /\ Len(args.s) = Len(args.t) /\ Len(args.s) <= 32 /\ args.s # args.t
          => result.s # result.t
       /\ /\ Len(args.s) > 32
          /\ Len(args.t) > 32
          /\ SubSeq(args.s, 1, 32) = SubSeq(args.t, 1, 32)
          => result.s = result.t

\* two different strings longer than 32 bytes, of different lengths, were
\* given the same 32 bytes
C17_Witness ==
    /\ called
    /\ Len(args.s) > 32
    /\ Len(args.t) > Len(args.s)
    /\ SubSeq(args.s, 1, 32) = SubSeq(args.t, 1, 32)
    /\ result.s = result.t
    /\ result.s # [i \in 1..32 |-> 97]

(***************************************************************************)
(* C18  Codec round trip: decoding the encoding of a message succeeds and  *)
(* gives a body with the same variant and the same fields, with any nonce. *)
(***************************************************************************)
SameBody(a, b) ==
    /\ a.type = b.type
    /\ a.from = b.from
    /\ a.orig_sender = b.orig_sender
    /\ a.game_id = b.game_id
    /\ a.name = b.name
    /\ a.text = b.text

Count(items, c) == Cardinality({i \in 1..Len(items) : items[i] = c})

\* the recipes whose multiset is that of the list
Matching(items) ==
    {i \in 1..Len(get_all_recipes) :
        \A c \in Components :
            get_all_recipes[i].components[c] = Count(items, c)}

C19_Craft ==
    called
    => /\ Cardinality(Matching(args.items)) <= 1
       /\ result.crafted # <<>> <=> Matching(args.items) # {}
       /\ result.crafted # <<>>
          => /\ \A i \in Matching(args.items) :
                   result.crafted = <<get_all_recipes[i]>>
             /\ Len(args.items) = 1
             /\ args.items[1] \in Skills
             /\ result.crafted[1].name = args.items[1]
       /\ Len(args.items) = 1 /\ args.items[1] \in Skills
          => result.crafted # <<>>
       /\ args.component \in Skills
          => /\ ~result.description.panicked
             /\ \E i \in 1..Len(get_all_recipes) :
                   /\ get_all_recipes[i].name = args.component
                   /\ result.description.text =
                         get_all_recipes[i].description

\* a skill and a color together craft nothing, and Stun is described by
\* its own recipe
C19_Witness ==
    /\ called
    /\ Len(args.items) = 2
    /\ Count(args.items, "Attack") = 1
    /\ Count(args.items, "Red") = 1
    /\ result.crafted = <<>>
    /\ args.component = "Stun"
    /\ result.description.text = "no idea tbh 4"

(***************************************************************************)
(* C20  Each GameRequest is accepted at most once: the GameStart           *)
(* broadcasts of other peers that name a peer as orig_sender are never     *)
(* more than the GameRequest broadcasts of that peer.                      *)
(***************************************************************************)
C20_AcceptedAtMostOnce ==
    \A a \in Nodes :
        Cardinality({s \in SentOf("GameStart") :
                        s.msg.orig_sender = a /\ s.by # a})
            <= Cardinality({r \in SentOf("GameRequest") : r.by = a})

(***************************************************************************)
(* C21  A node never has two game sessions at a time: no step starts a    *)
(* session on a node (the /min accept of main.rs:213 or the dispatcher's   *)
(* spawn of main.rs:327) while an earlier session of that node is still in *)
(* its input loop.                                                         *)
(***************************************************************************)
\* the session has entered its input loop and has not left it
InInputLoop(session) == session.loop = "running"

\* this step spawns a session on n
SessionStarted(n) == Len(sessions'[n]) > Len(sessions[n])

\* the step is judged against the earlier sessions of other games only, so
\* that two accepts drawing the same game id are not what breaks it
C21_OneSessionAtATime ==
    [][\A n \in Nodes :
          SessionStarted(n)
          => \A i \in 1..Len(sessions[n]) :
                InInputLoop(sessions[n][i])
                => sessions[n][i].game_id =
                       sessions'[n][Len(sessions'[n])].game_id]_vars

(***************************************************************************)
(* C22  No self-match: no GameStart that was broadcast names its sender as *)
(* the challenger (from = orig_sender): a /min typed while the slot holds  *)
(* the node's own identity is not an accept.                               *)
(***************************************************************************)
C22_NoSelfMatch ==
    \A s \in SentOf("GameStart") : s.msg.from # s.msg.orig_sender

(***************************************************************************)
(* C23  Session isolation, as claimed: for every GameStart that was        *)
(* broadcast, the only nodes with a session on the topic derived from its  *)
(* game_id are its from and its orig_sender.                               *)
(***************************************************************************)
\* the nodes that have a session on the topic derived from game_id
Joiners(game_id) ==
    {n \in Nodes : \E i \in 1..Len(sessions[n]) :
                      sessions[n][i].topic = game_topic(game_id)}

Topics == [g \in GameIds |-> game_topic(g)]

\* session i of n comes from a GameStart that names n
Invited(n, i) ==
    /\ sessions[n][i].game_id \in GameIds
    /\ sessions[n][i].topic = Topics[sessions[n][i].game_id]
    /\ \E s \in SentOf("GameStart") :
          /\ s.msg.game_id = sessions[n][i].game_id
          /\ \/ s.msg.from = our_id(n) /\ sessions[n][i].bootstrap = <<>>
             \/ /\ s.msg.orig_sender = our_id(n)
                /\ sessions[n][i].bootstrap = <<s.msg.from>>

\* this step is n's dispatcher handling a GameStart
HandlesStart(n) ==
    /\ handled'[n] # handled[n]
    /\ handled'[n].msg.type = "GameStart"

BystanderStep(n) ==
    HandlesStart(n) /\ handled'[n].msg.orig_sender # our_id(n)
    => /\ game_request_tracker'[n] = None
       /\ sessions'[n] = sessions[n]

DrawTurn(n, i) == sessions'[n][i].frames = sessions[n][i].frames + 1

\* this step is a turn of session i's loop that panics
PanicTurn(n, i) ==
    sessions[n][i].loop = "running" /\ sessions'[n][i].loop = "panicked"

C24_NoUnderflow ==
    [][\A n \in Nodes : \A i \in 1..Len(sessions[n]) :
          LET session == sessions[n][i] IN
          /\ ~PanicTurn(n, i)
          /\ DrawTurn(n, i)
             => /\ session.term_cols >= 11
                /\ session.term_rows >= 1
                /\ border(session) = [title |-> session.term_cols - 11,
                                      side |-> session.term_cols - 2,
                                      bottom |-> session.term_rows - 1]]_vars

====
